---- MODULE Spec2Model ----
(***************************************************************************)
(* Model of qPCR_Analysis.py: the delta-delta-Ct pipeline                  *)
(*   group_ct_values -> compute_delta_ct -> average_delta_ct ->            *)
(*   compute_ddct -> compute_fold_change -> write_results_to_csv.          *)
(*                                                                         *)
(* A Python dict is modelled as the sequence of its <<key, value>> items   *)
(* in insertion order (keys unique), a list as a sequence, a tuple key     *)
(* (cond, gene) as <<cond, gene>>.  A float is modelled as an exact number *)
(* [kind, n, d]: kind "rat" is the rational n/d in lowest terms, kind      *)
(* "pow2" is 2^(n/d) for a non-integer exponent n/d, kind "r4pow2" is that *)
(* power rounded to four decimals.                                         *)
(***************************************************************************)
EXTENDS Integers, Sequences, FiniteSets, TLC

VARIABLES pc, data, grouped, hk_gene, delta_ct, mean_delta_ct, control_cond,
          genes, ddct, ddct_log, fold_change, rows

vars == <<pc, data, grouped, hk_gene, delta_ct, mean_delta_ct, control_cond,
          genes, ddct, ddct_log, fold_change, rows>>

\* Longest table of readings that is analysed.
MaxRows == 4

(***************************************************************************)
(* Numbers                                                                 *)
(***************************************************************************)
Abs(x) == IF x < 0 THEN -x ELSE x

RECURSIVE GCD(_, _)
GCD(a, b) == IF b = 0 THEN a ELSE GCD(b, a % b)

\* The rational n/d (d # 0) in lowest terms with a positive denominator.
Rat(n, d) ==
    LET g == GCD(Abs(n), Abs(d))
        s == IF d < 0 THEN -1 ELSE 1
    IN  [kind |-> "rat", n |-> (s * n) \div g, d |-> (s * d) \div g]

Whole(n) == Rat(n, 1)

Sub(x, y) == Rat(x.n * y.d - y.n * x.d, x.d * y.d)

Add(x, y) == Rat(x.n * y.d + y.n * x.d, x.d * y.d)

DivInt(x, k) == Rat(x.n, x.d * k)

\* Neg losing the sign.
NegKept(x) == Rat(x.n, x.d)

Neg(x) == Rat(-x.n, x.d)

RECURSIVE TwoTo(_)
TwoTo(k) == IF k = 0 THEN 1 ELSE 2 * TwoTo(k - 1)

\* 2 ** x
Pow2(x) ==
    IF x.d = 1
    THEN IF x.n >= 0 THEN Rat(TwoTo(x.n), 1) ELSE Rat(1, TwoTo(-x.n))
    ELSE [kind |-> "pow2", n |-> x.n, d |-> x.d]

\* Number of decimals kept by the result table.
Decimals == 4

RECURSIVE TenTo(_)
TenTo(k) == IF k = 0 THEN 1 ELSE 10 * TenTo(k - 1)

\* round(x, 4): the nearest multiple of 10^-4, a tie going to the even one.
Round4(x) ==
    IF x.kind = "rat"
    THEN LET s  == TenTo(Decimals)
             ip == x.n \div x.d
             fr == x.n % x.d
             q  == (fr * s) \div x.d
             r  == (fr * s) % x.d
             up == (2 * r > x.d) \/ (2 * r = x.d /\ q % 2 = 1)
         IN  Rat(ip * s + q + (IF up THEN 1 ELSE 0), s)
    ELSE [kind |-> "r4pow2", n |-> x.n, d |-> x.d]

(***************************************************************************)
(* Dictionaries in insertion order                                         *)
(***************************************************************************)
Keys(d) == {d[i][1] : i \in DOMAIN d}

KeyList(d) == [i \in DOMAIN d |-> d[i][1]]

Has(d, k) == \E i \in DOMAIN d : d[i][1] = k

Get(d, k) == d[CHOOSE i \in DOMAIN d : d[i][1] = k][2]

\* d[k] = v: a new key goes last, an old key keeps its place.
Put(d, k, v) ==
    IF Has(d, k)
    THEN [i \in DOMAIN d |-> IF d[i][1] = k THEN <<k, v>> ELSE d[i]]
    ELSE Append(d, <<k, v>>)

Front(s) == SubSeq(s, 1, Len(s) - 1)

Last(s) == s[Len(s)]

(***************************************************************************)
(* group_ct_values                                                         *)
(***************************************************************************)
\* group_ct_values keeping the first Ct of a (condition, gene, sample_id).
RECURSIVE group_first_wins(_)
group_first_wins(rs) ==
    IF rs = <<>> THEN <<>>
    ELSE LET g     == group_first_wins(Front(rs))
             row   == Last(rs)
             key   == <<row.condition, row.gene>>
             inner == IF Has(g, key) THEN Get(g, key) ELSE <<>>
         IN  IF Has(inner, row.sample_id) THEN g
             ELSE Put(g, key, Put(inner, row.sample_id, row.ct))

RECURSIVE group_ct_values(_)
group_ct_values(rs) ==
    IF rs = <<>> THEN <<>>
    ELSE LET g     == group_ct_values(Front(rs))
             row   == Last(rs)
             key   == <<row.condition, row.gene>>
             inner == IF Has(g, key) THEN Get(g, key) ELSE <<>>
         IN  Put(g, key, Put(inner, row.sample_id, row.ct))

(***************************************************************************)
(* compute_delta_ct                                                        *)
(***************************************************************************)
\* housekeeping[(cond, sample_id)] = ct for the samples of one housekeeping key.
RECURSIVE hk_samples(_, _, _)
hk_samples(h, cond, samples) ==
    IF samples = <<>> THEN h
    ELSE LET s == Last(samples)
         IN  Put(hk_samples(h, cond, Front(samples)), <<cond, s[1]>>, s[2])

\* First loop: the housekeeping Ct per (condition, sample).
RECURSIVE housekeeping_index(_, _)
housekeeping_index(g, housekeeping_gene) ==
    IF g = <<>> THEN <<>>
    ELSE LET h    == housekeeping_index(Front(g), housekeeping_gene)
             item == Last(g)
             cond == item[1][1]
             gene == item[1][2]
         IN  IF gene = housekeeping_gene THEN hk_samples(h, cond, item[2]) ELSE h

\* delta_values looking the housekeeping Ct up by sample id alone.
RECURSIVE delta_values_any_cond(_, _, _)
delta_values_any_cond(samples, cond, housekeeping) ==
    IF samples = <<>> THEN <<>>
    ELSE LET rest == delta_values_any_cond(Front(samples), cond, housekeeping)
             s    == Last(samples)
             hits == {i \in DOMAIN housekeeping : housekeeping[i][1][2] = s[1]}
         IN  IF hits = {} THEN rest
             ELSE Append(rest, Sub(s[2], housekeeping[CHOOSE i \in hits : TRUE][2]))

\* Inner loop: the list of ct - hk_ct over the samples that have a
\* housekeeping Ct under cond.
RECURSIVE delta_values(_, _, _)
delta_values(samples, cond, housekeeping) ==
    IF samples = <<>> THEN <<>>
    ELSE LET rest   == delta_values(Front(samples), cond, housekeeping)
             s      == Last(samples)
             hk_key == <<cond, s[1]>>
         IN  IF ~Has(housekeeping, hk_key) THEN rest
             ELSE Append(rest, Sub(s[2], Get(housekeeping, hk_key)))

\* delta_loop creating a key only with its first value.
RECURSIVE delta_loop_lazy(_, _, _)
delta_loop_lazy(g, housekeeping_gene, housekeeping) ==
    IF g = <<>> THEN <<>>
    ELSE LET d    == delta_loop_lazy(Front(g), housekeeping_gene, housekeeping)
             item == Last(g)
             cond == item[1][1]
             gene == item[1][2]
             vals == delta_values(item[2], cond, housekeeping)
         IN  IF gene = housekeeping_gene \/ vals = <<>> THEN d
             ELSE Put(d, <<cond, gene>>, vals)

\* delta_loop without the skip of the housekeeping gene.
RECURSIVE delta_loop_no_skip(_, _, _)
delta_loop_no_skip(g, housekeeping_gene, housekeeping) ==
    IF g = <<>> THEN <<>>
    ELSE LET d    == delta_loop_no_skip(Front(g), housekeeping_gene, housekeeping)
             item == Last(g)
             cond == item[1][1]
             gene == item[1][2]
         IN  Put(d, <<cond, gene>>, delta_values(item[2], cond, housekeeping))

\* Second loop, over the items of grouped.
RECURSIVE delta_loop(_, _, _)
delta_loop(g, housekeeping_gene, housekeeping) ==
    IF g = <<>> THEN <<>>
    ELSE LET d    == delta_loop(Front(g), housekeeping_gene, housekeeping)
             item == Last(g)
             cond == item[1][1]
             gene == item[1][2]
         IN  IF gene = housekeeping_gene THEN d
             ELSE Put(d, <<cond, gene>>, delta_values(item[2], cond, housekeeping))

compute_delta_ct(g, housekeeping_gene) ==
    delta_loop(g, housekeeping_gene, housekeeping_index(g, housekeeping_gene))

(***************************************************************************)
(* average_delta_ct                                                        *)
(***************************************************************************)
\* sum(values)
RECURSIVE Sum(_)
Sum(values) ==
    IF values = <<>> THEN Whole(0) ELSE Add(Sum(Front(values)), Last(values))

\* average_delta_ct without the skip of an empty list.
RECURSIVE average_no_skip(_)
average_no_skip(delta_ct_dict) ==
    IF delta_ct_dict = <<>> THEN <<>>
    ELSE LET m      == average_no_skip(Front(delta_ct_dict))
             key    == Last(delta_ct_dict)[1]
             values == Last(delta_ct_dict)[2]
         IN  IF Len(values) = 0 THEN Put(m, key, Whole(0))
             ELSE Put(m, key, DivInt(Sum(values), Len(values)))

RECURSIVE average_delta_ct(_)
average_delta_ct(delta_ct_dict) ==
    IF delta_ct_dict = <<>> THEN <<>>
    ELSE LET m      == average_delta_ct(Front(delta_ct_dict))
             key    == Last(delta_ct_dict)[1]
             values == Last(delta_ct_dict)[2]
         IN  IF Len(values) = 0 THEN m
             ELSE Put(m, key, DivInt(Sum(values), Len(values)))

(***************************************************************************)
(* compute_ddct                                                            *)
(***************************************************************************)
\* genes = set(g for (cond, g) in mean_delta_ct.keys())
gene_set(mean) == {k[2] : k \in Keys(mean)}

\* ddct_gene_writes taking a missing control mean as 0.
ddct_gene_writes_no_control_check(mean, control_condition, gene) ==
    LET control_key == <<control_condition, gene>>
        control_dct == IF Has(mean, control_key) THEN Get(mean, control_key)
                       ELSE Whole(0)
        Mine(item)  == item[1][2] = gene
        mine        == SelectSeq(mean, Mine)
    IN  [i \in DOMAIN mine |-> <<mine[i][1], Sub(mine[i][2], control_dct)>>]

\* ddct_gene_writes without the "if g != gene: continue".
ddct_gene_writes_all_genes(mean, control_condition, gene) ==
    LET control_key == <<control_condition, gene>>
    IN  IF ~Has(mean, control_key) THEN <<>>
        ELSE LET control_dct == Get(mean, control_key)
             IN  [i \in DOMAIN mean |->
                    <<mean[i][1], Sub(mean[i][2], control_dct)>>]

\* The assignments ddct[(cond, g)] = dct - control_dct that one pass of the
\* loop over genes makes, in order.
ddct_gene_writes(mean, control_condition, gene) ==
    LET control_key == <<control_condition, gene>>
    IN  IF ~Has(mean, control_key) THEN <<>>
        ELSE LET control_dct == Get(mean, control_key)
                 Mine(item)  == item[1][2] = gene
                 mine        == SelectSeq(mean, Mine)
             IN  [i \in DOMAIN mine |->
                    <<mine[i][1], Sub(mine[i][2], control_dct)>>]

RECURSIVE apply_writes(_, _)
apply_writes(d, ws) ==
    IF ws = <<>> THEN d
    ELSE Put(apply_writes(d, Front(ws)), Last(ws)[1], Last(ws)[2])

\* compute_ddct with the genes iterated in the order of the list gs.
RECURSIVE ddct_in_order(_, _, _)
ddct_in_order(mean, control_condition, gs) ==
    IF gs = <<>> THEN <<>>
    ELSE apply_writes(ddct_in_order(mean, control_condition, Front(gs)),
                      ddct_gene_writes(mean, control_condition, Last(gs)))

(***************************************************************************)
(* compute_fold_change                                                     *)
(***************************************************************************)
\* compute_fold_change with 2 * (-value) for 2 ** (-value).
compute_fold_change_times(ddct_dict) ==
    [i \in DOMAIN ddct_dict |->
        <<ddct_dict[i][1], Rat(2 * (-ddct_dict[i][2].n), ddct_dict[i][2].d)>>]

compute_fold_change(ddct_dict) ==
    [i \in DOMAIN ddct_dict |-> <<ddct_dict[i][1], Pow2(Neg(ddct_dict[i][2]))>>]

(***************************************************************************)
(* write_results_to_csv                                                    *)
(***************************************************************************)
\* The names of the model in the order Python compares str (by code point).
CodePointOrder == <<"Actb", "Bax", "GAPDH", "control", "p53", "treated">>

Rank(name) == CHOOSE i \in DOMAIN CodePointOrder : CodePointOrder[i] = name

StrLess(a, b) == Rank(a) < Rank(b)

\* (c1, g1) < (c2, g2) on tuples of str
KeyLess(k1, k2) ==
    \/ StrLess(k1[1], k2[1])
    \/ k1[1] = k2[1] /\ StrLess(k1[2], k2[2])

RECURSIVE insert_sorted(_, _)
insert_sorted(s, k) ==
    IF s = <<>> THEN <<k>>
    ELSE IF KeyLess(k, Last(s)) THEN Append(insert_sorted(Front(s), k), Last(s))
    ELSE Append(s, k)

RECURSIVE sorted(_)
sorted(ks) ==
    IF ks = <<>> THEN <<>> ELSE insert_sorted(sorted(Front(ks)), Last(ks))

\* An empty field of the table ("").
Empty == [kind |-> "empty", n |-> 0, d |-> 1]

result_row(key, mean, dd, fc) ==
    [gene          |-> key[2],
     condition     |-> key[1],
     mean_delta_ct |-> Round4(Get(mean, key)),
     ddct          |-> IF Has(dd, key) THEN Round4(Get(dd, key)) ELSE Empty,
     fold_change   |-> IF Has(fc, key) THEN Round4(Get(fc, key)) ELSE Empty]

\* write_results_to_csv with one row per key of ddct.
write_results_ddct_keys(mean, dd, fc) ==
    LET all_keys == sorted(KeyList(dd))
    IN  [i \in DOMAIN all_keys |-> result_row(all_keys[i], mean, dd, fc)]

write_results_to_csv(mean, dd, fc) ==
    LET all_keys == sorted(KeyList(mean))
    IN  [i \in DOMAIN all_keys |-> result_row(all_keys[i], mean, dd, fc)]

(***************************************************************************)
(* Inputs                                                                  *)
(***************************************************************************)
Reading(c, g, s, ct) == [condition |-> c, gene |-> g, sample_id |-> s, ct |-> ct]

\* The rows a table is made of.
Readings ==
    { Reading("control", "GAPDH", "s1", Whole(20)),
      Reading("control", "Bax",   "s1", Whole(25)),
      Reading("treated", "GAPDH", "s1", Rat(41, 2)),
      Reading("treated", "Bax",   "s1", Whole(24)),
      Reading("control", "Bax",   "s1", Whole(26)),
      Reading("control", "Bax",   "s2", Whole(27)),
      Reading("control", "GAPDH", "s2", Whole(21)),
      Reading("treated", "p53",   "s1", Whole(23)) }

Tables == UNION {[1..n -> Readings] : n \in 0..MaxRows}

HkGenes == {"GAPDH", "Bax", "Actb"}

ControlConds == {"control", "treated"}

Init ==
    /\ pc = "group"
    /\ data \in Tables
    /\ grouped = <<>>
    /\ hk_gene = ""
    /\ delta_ct = <<>>
    /\ mean_delta_ct = <<>>
    /\ control_cond = ""
    /\ genes = {}
    /\ ddct = <<>>
    /\ ddct_log = <<>>
    /\ fold_change = <<>>
    /\ rows = <<>>

GroupCtValues ==
    /\ pc = "group"
    /\ grouped' = group_ct_values(data)
    /\ pc' = "delta"
    /\ UNCHANGED <<data, hk_gene, delta_ct, mean_delta_ct, control_cond,
                   genes, ddct, ddct_log, fold_change, rows>>

ComputeDeltaCt ==
    /\ pc = "delta"
    /\ \E hk \in HkGenes :
         /\ hk_gene' = hk
         /\ delta_ct' = compute_delta_ct(grouped, hk)
    /\ pc' = "average"
    /\ UNCHANGED <<data, grouped, mean_delta_ct, control_cond,
                   genes, ddct, ddct_log, fold_change, rows>>

AverageDeltaCt ==
    /\ pc = "average"
    /\ mean_delta_ct' = average_delta_ct(delta_ct)
    /\ pc' = "ddct"
    /\ UNCHANGED <<data, grouped, hk_gene, delta_ct, control_cond,
                   genes, ddct, ddct_log, fold_change, rows>>

\* compute_ddct up to its loop: ddct = {} and the set of genes.
DdctBegin ==
    /\ pc = "ddct"
    /\ \E c \in ControlConds : control_cond' = c
    /\ genes' = gene_set(mean_delta_ct)
    /\ ddct' = <<>>
    /\ ddct_log' = <<>>
    /\ pc' = "ddct_loop"
    /\ UNCHANGED <<data, grouped, hk_gene, delta_ct, mean_delta_ct,
                   fold_change, rows>>

\* One pass of "for gene in genes": a set is iterated in no fixed order.
DdctGene ==
    /\ pc = "ddct_loop"
    /\ \E gene \in genes :
         LET ws == ddct_gene_writes(mean_delta_ct, control_cond, gene)
         IN  /\ ddct' = apply_writes(ddct, ws)
             /\ ddct_log' = ddct_log \o [i \in DOMAIN ws |-> <<gene, ws[i][1]>>]
             /\ genes' = genes \ {gene}
    /\ UNCHANGED <<pc, data, grouped, hk_gene, delta_ct, mean_delta_ct,
                   control_cond, fold_change, rows>>

\* compute_ddct returns; compute_fold_change runs on its result.
ComputeFoldChange ==
    /\ pc = "ddct_loop"
    /\ genes = {}
    /\ fold_change' = compute_fold_change(ddct)
    /\ pc' = "write"
    /\ UNCHANGED <<data, grouped, hk_gene, delta_ct, mean_delta_ct,
                   control_cond, genes, ddct, ddct_log, rows>>

WriteResultsToCsv ==
    /\ pc = "write"
    /\ rows' = write_results_to_csv(mean_delta_ct, ddct, fold_change)
    /\ pc' = "done"
    /\ UNCHANGED <<data, grouped, hk_gene, delta_ct, mean_delta_ct,
                   control_cond, genes, ddct, ddct_log, fold_change>>

Next ==
    \/ GroupCtValues
    \/ ComputeDeltaCt
    \/ AverageDeltaCt
    \/ DdctBegin
    \/ DdctGene
    \/ ComputeFoldChange
    \/ WriteResultsToCsv

Spec == Init /\ [][Next]_vars
(***************************************************************************)
(* Properties                                                              *)
(***************************************************************************)
ItemSet(d) == {d[i] : i \in DOMAIN d}

\* A dict holds each key once.
IsDict(d) == \A i, j \in DOMAIN d : d[i][1] = d[j][1] => i = j

\* group_ct_values has returned.
Grouped == pc = "delta"

\* compute_delta_ct has returned.
HasDelta == pc = "average"

\* average_delta_ct has returned.
HasMean == pc = "ddct"

\* The loop of compute_ddct is over.
DdctReturned == pc = "ddct_loop" /\ genes = {}

\* compute_fold_change has returned.
HasFold == pc = "write"

\* The rows of data with the given condition, gene and sample id.
RowsOf(c, g, s) ==
    {i \in DOMAIN data :
        data[i].condition = c /\ data[i].gene = g /\ data[i].sample_id = s}

Max(S) == CHOOSE m \in S : \A x \in S : x <= m

\* Sample sample_id has a housekeeping reading under condition cond.
HasHk(cond, sample_id) ==
    /\ Has(grouped, <<cond, hk_gene>>)
    /\ Has(Get(grouped, <<cond, hk_gene>>), sample_id)

HkCt(cond, sample_id) == Get(Get(grouped, <<cond, hk_gene>>), sample_id)

\* The places in the sample map of key k whose sample has a housekeeping
\* reading under the condition of k.
Contributing(k) ==
    {i \in DOMAIN Get(grouped, k) : HasHk(k[1], Get(grouped, k)[i][1])}

\* C1: group_ct_values returns a map whose keys are exactly the distinct
\* (condition, gene) pairs of the input, each with exactly the sample ids
\* seen for it, each sample id mapped to the Ct of the last reading with
\* that (condition, gene, sample id); the empty input gives the empty map.
C1_GroupLastWins ==
    Grouped =>
        /\ IsDict(grouped)
        /\ Keys(grouped) = {<<data[i].condition, data[i].gene>> : i \in DOMAIN data}
        /\ \A k \in Keys(grouped) :
             LET samples == Get(grouped, k)
             IN  /\ IsDict(samples)
                 /\ Keys(samples) =
                      {data[i].sample_id : i \in
                         {j \in DOMAIN data :
                            <<data[j].condition, data[j].gene>> = k}}
                 /\ \A sid \in Keys(samples) :
                      Get(samples, sid) = data[Max(RowsOf(k[1], k[2], sid))].ct

\* C1 witness: a table that reads one (condition, gene, sample id) twice with
\* different Ct has been grouped.
C1_Witness ==
    /\ Grouped
    /\ \E i, j \in DOMAIN data :
         /\ i < j
         /\ data[i].condition = data[j].condition
         /\ data[i].gene = data[j].gene
         /\ data[i].sample_id = data[j].sample_id
         /\ data[i].ct # data[j].ct
         /\ j = Max(RowsOf(data[i].condition, data[i].gene, data[i].sample_id))

\* C2: for every key of the grouped map whose gene is not the housekeeping
\* gene, the delta-Ct list of compute_delta_ct holds exactly one value
\* ct - housekeepingCt for each sample of the key that has a housekeeping
\* reading under the same condition and sample id, and nothing else; with
\* exactly one sample lacking it, the list is one shorter than the sample map.
C2_DeltaCtPerSample ==
    HasDelta =>
        \A k \in Keys(grouped) :
            k[2] # hk_gene =>
                /\ Has(delta_ct, k)
                /\ LET samples == Get(grouped, k)
                       vals    == Get(delta_ct, k)
                       C       == Contributing(k)
                   IN  /\ Len(vals) = Cardinality(C)
                       /\ \E f \in [DOMAIN vals -> C] :
                            /\ \A a, b \in DOMAIN vals : f[a] = f[b] => a = b
                            /\ \A a \in DOMAIN vals :
                                 vals[a] = Sub(samples[f[a]][2],
                                               HkCt(k[1], samples[f[a]][1]))
                       /\ Cardinality(C) = Len(samples) - 1
                            => Len(vals) = Len(samples) - 1

\* C2 witness: a key with two samples, one of them without a housekeeping
\* reading under its condition, has its delta-Ct list.
C2_Witness ==
    /\ HasDelta
    /\ \E k \in Keys(grouped) :
         /\ k[2] # hk_gene
         /\ Len(Get(grouped, k)) = 2
         /\ Cardinality(Contributing(k)) = 1
         /\ Len(Get(delta_ct, k)) = 1

\* C3: after the three stages a key is in MeanDeltaCt exactly if one of its
\* samples contributed a delta-Ct value, its value times the number of the
\* values is their sum, and a key without contributing samples is absent.
C3_MeanIffContribution ==
    HasMean =>
        /\ IsDict(mean_delta_ct)
        /\ Keys(mean_delta_ct) =
             {k \in Keys(grouped) : k[2] # hk_gene /\ Contributing(k) # {}}
        /\ \A k \in Keys(mean_delta_ct) :
             LET vals == Get(delta_ct, k)
                 m    == Get(mean_delta_ct, k)
                 sum  == Sum(vals)
             IN  /\ Len(vals) = Cardinality(Contributing(k))
                 /\ m.kind = "rat"
                 /\ m.n * Len(vals) * sum.d = sum.n * m.d

\* C3 witness: one key lost every sample to a missing housekeeping reading
\* and is absent, while another key has its mean.
C3_Witness ==
    /\ HasMean
    /\ mean_delta_ct # <<>>
    /\ \E k \in Keys(delta_ct) :
         /\ Get(grouped, k) # <<>>
         /\ Get(delta_ct, k) = <<>>
         /\ ~Has(mean_delta_ct, k)

\* C4: the keys of compute_ddct are exactly the keys of MeanDeltaCt whose
\* gene has a control entry, each mapped to its mean minus the control mean
\* of its gene; a gene without control entry has no key in DeltaDeltaCt nor
\* in FoldChange.
C4_DdctKeys ==
    /\ DdctReturned =>
         /\ IsDict(ddct)
         /\ Keys(ddct) =
              {k \in Keys(mean_delta_ct) :
                  Has(mean_delta_ct, <<control_cond, k[2]>>)}
         /\ \A k \in Keys(ddct) :
              Get(ddct, k) = Sub(Get(mean_delta_ct, k),
                                 Get(mean_delta_ct, <<control_cond, k[2]>>))
    /\ HasFold =>
         \A k \in Keys(mean_delta_ct) :
             ~Has(mean_delta_ct, <<control_cond, k[2]>>)
                 => ~Has(ddct, k) /\ ~Has(fold_change, k)

\* C4 witness: one gene has a control mean and a key in DeltaDeltaCt, another
\* gene has a mean under another condition only.
C4_Witness ==
    /\ HasFold
    /\ ddct # <<>>
    /\ \E k \in Keys(mean_delta_ct) :
         /\ k[1] # control_cond
         /\ ~Has(mean_delta_ct, <<control_cond, k[2]>>)

\* C5: every gene with a MeanDeltaCt entry under the control condition has
\* DeltaDeltaCt 0 and fold change 1 for (controlCondition, gene).
C5_ControlIdentity ==
    /\ DdctReturned =>
         \A k \in Keys(mean_delta_ct) :
             k[1] = control_cond => Has(ddct, k) /\ Get(ddct, k) = Whole(0)
    /\ HasFold =>
         \A k \in Keys(mean_delta_ct) :
             k[1] = control_cond
                 => Has(fold_change, k) /\ Get(fold_change, k) = Whole(1)

\* C5 witness: a gene with a non-zero control mean has its fold change.
C5_Witness ==
    /\ HasFold
    /\ \E k \in Keys(mean_delta_ct) :
         /\ k[1] = control_cond
         /\ Get(mean_delta_ct, k) # Whole(0)
         /\ Has(fold_change, k)

Scenario ==
    << Reading("control", "GAPDH", "s1", Whole(20)),
       Reading("control", "Bax",   "s1", Whole(25)),
       Reading("treated", "GAPDH", "s1", Rat(41, 2)),
       Reading("treated", "Bax",   "s1", Whole(24)) >>

ScenarioDone ==
    /\ pc = "done"
    /\ data = Scenario
    /\ hk_gene = "GAPDH"
    /\ control_cond = "control"

\* C6: on the four readings of the scenario with housekeeping gene GAPDH and
\* control condition control, MeanDeltaCt is 5 for (control, Bax) and 3.5 for
\* (treated, Bax), DeltaDeltaCt is 0 and -1.5, FoldChange of (treated, Bax)
\* is 2^1.5, and the three maps have no key besides (control, Bax) and
\* (treated, Bax).
C6_Scenario ==
    ScenarioDone =>
        LET cb == <<"control", "Bax">>
            tb == <<"treated", "Bax">>
        IN  /\ Keys(mean_delta_ct) = {cb, tb}
            /\ Len(mean_delta_ct) = 2
            /\ Get(mean_delta_ct, cb) = Whole(5)
            /\ Get(mean_delta_ct, tb) = Rat(7, 2)
            /\ Keys(ddct) = {cb, tb}
            /\ Len(ddct) = 2
            /\ Get(ddct, cb) = Whole(0)
            /\ Get(ddct, tb) = Rat(-3, 2)
            /\ Keys(fold_change) \subseteq {cb, tb}
            /\ Has(fold_change, tb)
            /\ Get(fold_change, tb) = [kind |-> "pow2", n |-> 3, d |-> 2]

\* C6 witness: the scenario has run to its end.
C6_Witness == ScenarioDone /\ Len(fold_change) = 2

RowKey(r) == <<r.condition, r.gene>>

\* C7: the result table has exactly one row per key of MeanDeltaCt, in
\* ascending order of (condition, gene); a key without DeltaDeltaCt and
\* FoldChange entry has its row, with the two fields empty.
C7_RowPerMeanKey ==
    pc = "done" =>
        /\ Len(rows) = Len(mean_delta_ct)
        /\ {RowKey(rows[i]) : i \in DOMAIN rows} = Keys(mean_delta_ct)
        /\ \A i, j \in DOMAIN rows : i < j => KeyLess(RowKey(rows[i]), RowKey(rows[j]))
        /\ \A i \in DOMAIN rows :
             /\ rows[i].ddct = Empty <=> ~Has(ddct, RowKey(rows[i]))
             /\ rows[i].fold_change = Empty <=> ~Has(fold_change, RowKey(rows[i]))
             /\ rows[i].mean_delta_ct # Empty

\* C7 witness: a table is written whose means were inserted out of order,
\* with a row that has its ddct and a row that has none.
C7_Witness ==
    /\ pc = "done"
    /\ KeyList(mean_delta_ct) # sorted(KeyList(mean_delta_ct))
    /\ \E i, j \in DOMAIN rows :
         /\ rows[i].ddct = Empty
         /\ rows[i].fold_change = Empty
         /\ rows[j].ddct # Empty

\* The housekeeping gene names no key of the grouped map.
HkUnmatched == \A k \in Keys(grouped) : k[2] # hk_gene

\* C8 as stated: if the housekeeping gene matches no key of the grouped map,
\* the output of compute_delta_ct has no keys at all.
C8_Original == (HasDelta /\ HkUnmatched) => delta_ct = <<>>

\* C8 amended: if the housekeeping gene matches no key of the grouped map,
\* the output of compute_delta_ct has every key of the grouped map, each with
\* an empty delta-Ct list, so it holds no value at all and MeanDeltaCt is
\* empty.
C8_Amended ==
    /\ (HasDelta /\ HkUnmatched) =>
         /\ KeyList(delta_ct) = KeyList(grouped)
         /\ \A k \in Keys(delta_ct) : Get(delta_ct, k) = <<>>
    /\ (HasMean /\ HkUnmatched) => mean_delta_ct = <<>>

\* C8 witness: a non-empty grouped map without the housekeeping gene has been
\* through compute_delta_ct and average_delta_ct.
C8_Witness == HasMean /\ HkUnmatched /\ Len(grouped) >= 2

\* C9: no key whose gene is the housekeeping gene is in DeltaCtSet,
\* MeanDeltaCt, DeltaDeltaCt or FoldChange.
C9_NoHousekeepingKey ==
    \A k \in Keys(delta_ct) \cup Keys(mean_delta_ct)
              \cup Keys(ddct) \cup Keys(fold_change) : k[2] # hk_gene

\* C9 witness: the housekeeping gene has readings under every condition and
\* the pipeline has produced fold changes.
C9_Witness ==
    /\ pc = "done"
    /\ fold_change # <<>>
    /\ \A c \in ControlConds : Has(grouped, <<c, hk_gene>>)

\* The genes of the set gs in one fixed order.
InFixedOrder(gs) ==
    LET Mine(g) == g \in gs IN SelectSeq(CodePointOrder, Mine)

\* C10: the results are a function of the readings, the housekeeping gene
\* and the control condition: whatever the order in which compute_ddct
\* iterates the set of genes, DeltaDeltaCt and FoldChange are the maps, and
\* the table the rows, got with the genes in one fixed order; each key is
\* assigned at most once, in the pass of its own gene.
C10_Deterministic ==
    /\ \A i \in DOMAIN ddct_log :
         /\ ddct_log[i][2][2] = ddct_log[i][1]
         /\ \A j \in DOMAIN ddct_log : ddct_log[i][2] = ddct_log[j][2] => i = j
    /\ HasFold =>
         LET fixed == ddct_in_order(mean_delta_ct, control_cond,
                                    InFixedOrder(gene_set(mean_delta_ct)))
         IN  /\ mean_delta_ct =
                  average_delta_ct(compute_delta_ct(group_ct_values(data), hk_gene))
             /\ ItemSet(ddct) = ItemSet(fixed)
             /\ Len(ddct) = Len(fixed)
             /\ ItemSet(fold_change) = ItemSet(compute_fold_change(fixed))
             /\ Len(fold_change) = Len(fixed)
    /\ pc = "done" =>
         LET fixed == ddct_in_order(mean_delta_ct, control_cond,
                                    InFixedOrder(gene_set(mean_delta_ct)))
         IN  rows = write_results_to_csv(mean_delta_ct, fixed,
                                         compute_fold_change(fixed))

\* C10 witness: two genes with a control mean were iterated in the order
\* opposite to the fixed one, and the table is written.
C10_Witness ==
    /\ pc = "done"
    /\ Len(ddct) = 2
    /\ ddct[1][1][2] # ddct[2][1][2]
    /\ ddct # ddct_in_order(mean_delta_ct, control_cond,
                            InFixedOrder(gene_set(mean_delta_ct)))
====
